---- MODULE Spec2Model ----
(***************************************************************************)
(* Model of compute_strategy (src/strategy.py): the greedy nearest-first   *)
(* planner of the FTC DECODE strategy simulator.                           *)
(*                                                                         *)
(* Numbers.  The planner computes with Python floats (IEEE-754 binary64:   *)
(* a 53-bit significand, round-to-nearest-even after every operation).     *)
(* The model keeps that arithmetic and scales it down: a float is an       *)
(* integer count of the smallest step 2^-Frac, and every operation rounds  *)
(* its exact result to Prec significant bits, ties to even.  Values below  *)
(* 2^Prec steps are exact (the fixed grid plays the part of the subnormal  *)
(* range); there is no overflow within the bounds.                         *)
(***************************************************************************)
EXTENDS Integers, Sequences, FiniteSets, TLC

(* ---------------------------- bounds ----------------------------------- *)
\* significand width of the scaled-down float format
Prec == 3
\* number of fraction bits of the grid: one unit (1.0) is 2^Frac steps
Frac == 1
\* longest artifact list the caller passes
MaxArtifacts == 3

(* ------------------------- float arithmetic ---------------------------- *)
RECURSIVE Pow2(_)
Pow2(n) == IF n = 0 THEN 1 ELSE 2 * Pow2(n - 1)

\* steps per unit: the float 1.0
Unit == Pow2(Frac)

\* the float of the integer n, and of n + 1/2
F(n) == n * Unit
FHalf(n) == n * Unit + Unit \div 2

Abs(x) == IF x < 0 THEN -x ELSE x
Sgn(x) == IF x < 0 THEN -1 ELSE 1

\* Op(x) and Op(x, y) with the arguments evaluated once, as in a Python call
Call1(Op(_), x) == CHOOSE r \in {Op(v) : v \in {x}} : TRUE
Call2(Op(_, _), x, y) == CHOOSE r \in {Op(v, w) : v \in {x}, w \in {y}} : TRUE

\* the binary exponent of a/m: the least e >= 0 with a/m < 2^(Prec+e)
RECURSIVE Expo(_, _, _)
Expo(a, m, e) == IF a < Pow2(Prec + e) * m THEN e ELSE Expo(a, m, e + 1)

\* the float nearest the rational n/m (m > 0), ties to even
Nearest(n, m) ==
    LET a    == Abs(n)
        e    == Expo(a, m, 0)
        step == Pow2(e) * m
        q    == a \div step
        r    == a % step
        up   == (2 * r > step) \/ (2 * r = step /\ q % 2 = 1)
    IN  Sgn(n) * (IF up THEN q + 1 ELSE q) * Pow2(e)

RoundQ(n, m) == Call2(Nearest, n, m)

\* x + y, x - y, x * y and x / y of Python floats (y # 0 for fdiv)
fadd(x, y) == RoundQ(x + y, 1)
fsub(x, y) == RoundQ(x - y, 1)
fmul(x, y) == RoundQ(x * y, Unit)
fdiv(x, y) == RoundQ(Sgn(y) * x * Unit, Abs(y))

\* floor of the square root of dx^2 + dy^2
Hypot(dx, dy) ==
    LET n  == dx * dx + dy * dy
        lo == IF dx < dy THEN dy ELSE dx
    IN  CHOOSE s \in lo..(dx + dy) : s * s <= n /\ n < (s + 1) * (s + 1)

\* math.hypot(a[0]-b[0], a[1]-b[1]); exact wherever the distance is a float
euclid(a, b) == RoundQ(Call2(Hypot, Abs(a[1] - b[1]), Abs(a[2] - b[2])), 1)

(* ------------------------------ inputs --------------------------------- *)
\* field points whose mutual distances (0, 5, 6, 8, 10) are all floats
Pt(x, y) == <<F(x), F(y)>>
Points == {Pt(0, 0), Pt(6, 0), Pt(6, 8), Pt(3, 4)}
Starts == {Pt(0, 0), Pt(3, 4)}

RECURSIVE SeqsUpTo(_, _)
SeqsUpTo(S, n) ==
    IF n = 0 THEN {<<>>}
    ELSE LET shorter == SeqsUpTo(S, n - 1)
         IN  shorter \cup {Append(s, x) : s \in shorter, x \in S}

ArtifactLists == SeqsUpTo(Points, MaxArtifacts)

\* the params dict the caller builds: every key present
ParamSets ==
    [ robot_speed         : {F(0), F(1), F(2)},
      pickup_time         : {-FHalf(0), F(0), FHalf(0), FHalf(1)},
      match_time          : {F(7), F(12)},
      auton_time          : {F(0), F(5)},
      points_per_artifact : {F(5)},
      decode_zone         : {<<Pt(6, 8), F(5)>>},
      decode_bonus        : {F(3)},
      auton_multiplier    : {F(1), FHalf(1)} ]

(* ------------------------------- state --------------------------------- *)
VARIABLES
    start,              \* argument: the start point
    artifact_positions, \* argument: reference to the caller's list object
    params,             \* argument: the caller's params dict
    heap,               \* the list objects, by reference
    artifacts,          \* local: reference to the working list
    idx,                \* history: for each entry of the working list, its
                        \* index in the caller's list
    pos, t, score, visited,   \* locals of compute_strategy
    pc,                 \* "start", "loop", "done" (returned), "raised"
    exc,                \* the exception raised, "" if none
    result              \* <<the returned dict>>, <<>> before the return

vars == <<start, artifact_positions, params, heap, artifacts, idx,
          pos, t, score, visited, pc, exc, result>>

args == <<start, artifact_positions, params>>

\* the locals read from params
speed               == params.robot_speed
pickup_time         == params.pickup_time
total_time          == params.match_time
auton_time          == params.auton_time
points_per_artifact == params.points_per_artifact
decode_zone         == params.decode_zone
decode_bonus        == params.decode_bonus
auton_multiplier    == params.auton_multiplier

(* ----------------------------- list objects ---------------------------- *)
\* "artifacts = artifact_positions": no copy, the same list object
AliasList(h, ref) == [heap |-> h, ref |-> ref]

\* list.copy(): a new list object with the same entries
CopyList(h, ref) == [heap |-> h @@ ("copy" :> h[ref]), ref |-> "copy"]

FirstIndex(l, x) == CHOOSE i \in 1..Len(l) : l[i] = x /\ \A j \in 1..(i - 1) : l[j] # x

RemoveAt(l, i) == SubSeq(l, 1, i - 1) \o SubSeq(l, i + 1, Len(l))

\* a filter "[a for a in l if a != x]": drops every entry equal to x
RemoveAll(l, x) == SelectSeq(l, LAMBDA a : a # x)

\* list.remove(x): drops the first entry equal to x
Remove(l, x) == RemoveAt(l, FirstIndex(l, x))

(* --------------------------- nearest-first ----------------------------- *)
\* an unstable sort: among equal keys the later entry comes first
RankLastWins(l, i) ==
    1 + Cardinality({j \in 1..Len(l) :
                       l[j][1] < l[i][1] \/ (l[j][1] = l[i][1] /\ j > i)})

\* list.sort(key=lambda x: x[0]) is stable: entry i of l lands after every
\* entry with a smaller key and after the earlier entries with an equal key
Rank(l, i) ==
    1 + Cardinality({j \in 1..Len(l) :
                       l[j][1] < l[i][1] \/ (l[j][1] = l[i][1] /\ j < i)})

Sorted(l) == [k \in 1..Len(l) |-> l[CHOOSE i \in 1..Len(l) : Rank(l, i) = k]]

SortByKey(l) == Call1(Sorted, l)

\* dlist after the sort: <<distance, artifact>> pairs, nearest first
dlist(p, l) == SortByKey([i \in 1..Len(l) |-> <<euclid(p, l[i]), l[i]>>])

(* ------------------------- one loop iteration -------------------------- *)
\* d, target = dlist[0] for the current position and working list
nearest == dlist(pos, heap[artifacts])[1]

TravelTime(d) == fdiv(d, speed)

TimeNeeded(travel_time) == fadd(travel_time, pickup_time)

\* the break condition
NoTime(time_needed) == fadd(t, time_needed) > total_time

\* "t = travel_time" in place of "t += travel_time"
ArrivalReset(travel_time) == travel_time

\* t after "t += travel_time"
Arrival(travel_time) == fadd(t, travel_time)

\* the window test made after the pickup
InAutonAtCompletion(at) == fadd(at, pickup_time) <= auton_time

\* in_auton, from t at arrival
InAuton(at) == at <= auton_time

\* an open decode zone
BonusOpenBound(target) ==
    IF euclid(target, decode_zone[1]) < decode_zone[2] THEN decode_bonus ELSE 0

Bonus(target) ==
    IF euclid(target, decode_zone[1]) <= decode_zone[2] THEN decode_bonus ELSE 0

Gained(base, bonus, in_auton) ==
    IF in_auton THEN fmul(fadd(base, bonus), auton_multiplier) ELSE fadd(base, bonus)

\* "score = gained" in place of "score += gained"
Overwrite(sc, gained) == gained

\* score after "score += gained"
AddScore(sc, gained) == fadd(sc, gained)

MkResult ==
    [ visited             |-> visited,
      expected_score      |-> score,
      used_time           |-> t,
      remaining_artifacts |-> Len(heap[artifacts]),
      params              |-> params ]

(* ------------------------------ actions -------------------------------- *)
Init ==
    /\ start \in Starts
    /\ artifact_positions = "caller"
    /\ params \in ParamSets
    /\ \E l \in ArtifactLists : heap = ("caller" :> l)
    /\ artifacts = "caller"
    /\ idx = <<>>
    /\ pos = start
    /\ t = 0
    /\ score = 0
    /\ visited = <<>>
    /\ pc = "start"
    /\ exc = ""
    /\ result = <<>>

\* lines 26-42: read the parameters, initialise, copy the list
Begin ==
    /\ pc = "start"
    /\ t' = 0
    /\ pos' = start
    /\ visited' = <<>>
    /\ score' = 0
    /\ LET c == CopyList(heap, artifact_positions)
       IN  /\ heap' = c.heap
           /\ artifacts' = c.ref
    /\ idx' = [i \in 1..Len(heap[artifact_positions]) |-> i]
    /\ pc' = "loop"
    /\ UNCHANGED <<args, exc, result>>

\* line 49 with speed = 0: float division by zero
Raise ==
    /\ pc = "loop"
    /\ heap[artifacts] # <<>>
    /\ speed = 0
    /\ pc' = "raised"
    /\ exc' = "ZeroDivisionError"
    /\ UNCHANGED <<args, heap, artifacts, idx, pos, t, score, visited, result>>

\* lines 44-88: go to the nearest artifact and pick it up
Iterate ==
    /\ pc = "loop"
    /\ heap[artifacts] # <<>>
    /\ speed # 0
    /\ \E n \in {nearest} :
       \E travel_time \in {TravelTime(n[1])} :
       \E at \in {Arrival(travel_time)} :
       \E done_at \in {fadd(at, pickup_time)} :
       \E bonus \in {Bonus(n[2])} :
       \E gained \in {Gained(points_per_artifact, bonus, InAuton(at))} :
          /\ ~NoTime(TimeNeeded(travel_time))
          /\ t' = done_at
          /\ score' = AddScore(score, gained)
          /\ visited' = Append(visited,
                [ pos            |-> n[2],
                  travel_time    |-> travel_time,
                  pickup_time    |-> pickup_time,
                  time_at_pickup |-> done_at,
                  in_auton       |-> InAuton(at),
                  base_points    |-> points_per_artifact,
                  bonus_points   |-> bonus,
                  gained         |-> gained ])
          /\ pos' = n[2]
          /\ idx' = RemoveAt(idx, FirstIndex(heap[artifacts], n[2]))
          /\ heap' = [heap EXCEPT ![artifacts] = Remove(@, n[2])]
    /\ UNCHANGED <<args, artifacts, pc, exc, result>>

\* "continue" in place of "break": drop the artifact there is no time for and
\* try the next nearest
SkipAndContinue ==
    /\ pc = "loop"
    /\ heap[artifacts] # <<>>
    /\ speed # 0
    /\ \E n \in {nearest} :
          /\ NoTime(TimeNeeded(TravelTime(n[1])))
          /\ idx' = RemoveAt(idx, FirstIndex(heap[artifacts], n[2]))
          /\ heap' = [heap EXCEPT ![artifacts] = Remove(@, n[2])]
    /\ UNCHANGED <<args, artifacts, pos, t, score, visited, pc, exc, result>>

\* lines 52-53, 91-98: no time for the nearest artifact: break and return
Stop ==
    /\ pc = "loop"
    /\ heap[artifacts] # <<>>
    /\ speed # 0
    /\ NoTime(TimeNeeded(TravelTime(nearest[1])))
    /\ result' = <<MkResult>>
    /\ pc' = "done"
    /\ UNCHANGED <<args, heap, artifacts, idx, pos, t, score, visited, exc>>

\* lines 44, 91-98: no artifact left: return
Finish ==
    /\ pc = "loop"
    /\ heap[artifacts] = <<>>
    /\ result' = <<MkResult>>
    /\ pc' = "done"
    /\ UNCHANGED <<args, heap, artifacts, idx, pos, t, score, visited, exc>>

Next == Begin \/ Raise \/ Iterate \/ Stop \/ Finish

Spec == Init /\ [][Next]_vars

(* ============================ properties =============================== *)
original == heap[artifact_positions]
remaining == heap[artifacts]
Last(sq) == sq[Len(sq)]
Count(sq, x) == Cardinality({i \in 1..Len(sq) : sq[i] = x})

\* elapsed time before visit i, and position before visit i
TimeBefore(i) == IF i = 1 THEN 0 ELSE visited[i - 1].time_at_pickup
PosBefore(i) == IF i = 1 THEN start ELSE visited[i - 1].pos

\* the preconditions of section 4.1, and the InvalidParameter cases of section 7
ValidParams == speed > 0 /\ pickup_time >= 0 /\ total_time >= 0
InvalidParams ==
    \/ speed <= 0
    \/ pickup_time < 0
    \/ total_time < 0
    \/ auton_time < 0
    \/ auton_time > total_time

\* C1: with valid parameters the elapsed time never exceeds match_time, after
\* every iteration and in the returned used_time, and it is the
\* time_at_pickup of the last visit record (0 when nothing was visited).
C1_UsedTimeWithinBudget ==
    ValidParams =>
        /\ t <= total_time
        /\ t = (IF visited = <<>> THEN 0 ELSE Last(visited).time_at_pickup)
        /\ result # <<>> => result[1].used_time = t

\* the second half of C1 alone: used_time is the last record's time_at_pickup
C1_UsedTimeIsLastPickup ==
    /\ t = (IF visited = <<>> THEN 0 ELSE Last(visited).time_at_pickup)
    /\ result # <<>> => result[1].used_time = t

\* C2: visit records plus remaining artifacts account for every entry of the
\* caller's list, entry by entry (coinciding targets counted separately), and
\* the returned count of remaining artifacts is the number left.
C2_Conservation ==
    /\ Len(visited) + Len(remaining) = Len(original)
    /\ \A p \in Points :
          Count([i \in 1..Len(visited) |-> visited[i].pos], p) + Count(remaining, p)
              = Count(original, p)
    /\ result # <<>> =>
          Len(result[1].visited) + result[1].remaining_artifacts = Len(original)

C2_Witness ==
    /\ pc = "done"
    /\ visited # <<>>
    /\ remaining # <<>>
    /\ \E i, j \in 1..Len(original) : i < j /\ original[i] = original[j]
    /\ \E i \in 1..Len(visited) : Count(original, visited[i].pos) > 1

\* C3: invalid parameters are rejected with InvalidParameter before any
\* planning: no return, no visit record, no score, no elapsed time.
C3_InvalidParameterRejected ==
    InvalidParams =>
        /\ pc # "done"
        /\ pc = "raised" => exc = "InvalidParameter"
        /\ visited = <<>> /\ score = 0 /\ t = 0

\* C4: every iteration picks an artifact at the least distance from the
\* current position among those left, and among several at that distance the
\* one listed first by the caller.
C4_NearestFirstListed ==
    [][ (pc = "loop" /\ Len(visited') = Len(visited) + 1) =>
          LET chosen == Last(visited').pos
              k == CHOOSE i \in 1..Len(idx) : \A j \in 1..Len(idx') : idx'[j] # idx[i]
          IN  /\ remaining[k] = chosen
              /\ \A j \in 1..Len(remaining) :
                    /\ original[idx[j]] = remaining[j]
                    /\ euclid(pos, chosen) <= euclid(pos, remaining[j])
                    /\ euclid(pos, remaining[j]) = euclid(pos, chosen) => idx[k] <= idx[j]
      ]_vars

\* the last visit was chosen among several artifacts at the same distance
C4_Witness ==
    /\ visited # <<>>
    /\ \E j \in 1..Len(remaining) :
          /\ remaining[j] # Last(visited).pos
          /\ euclid(PosBefore(Len(visited)), remaining[j])
                = euclid(PosBefore(Len(visited)), Last(visited).pos)

\* C5 as stated: in_auton is decided by time_at_pickup minus pickup_time.
C5_AutonByPickupMinusDuration ==
    \A i \in 1..Len(visited) :
        visited[i].in_auton
            = (fsub(visited[i].time_at_pickup, visited[i].pickup_time) <= auton_time)

\* C5: in_auton is true exactly when the elapsed time at arrival (the time
\* before the visit plus the travel time) is at most auton_time, and
\* time_at_pickup is that arrival time plus the pickup time.
C5_AutonByArrival ==
    \A i \in 1..Len(visited) :
        LET at == fadd(TimeBefore(i), visited[i].travel_time)
        IN  /\ visited[i].in_auton = (at <= auton_time)
            /\ visited[i].time_at_pickup = fadd(at, visited[i].pickup_time)

\* arrival exactly at the window's end, pickup completed after it
C5_Witness ==
    \E i \in 1..Len(visited) :
        /\ fadd(TimeBefore(i), visited[i].travel_time) = auton_time
        /\ visited[i].time_at_pickup > auton_time
        /\ visited[i].in_auton

\* the nearest-first order of a whole list, with no budget
RECURSIVE Walk(_, _)
Walk(p, l) ==
    IF l = <<>> THEN <<>>
    ELSE LET n == dlist(p, l)[1]
         IN  <<n[2]>> \o Walk(n[2], Remove(l, n[2]))

\* C6: the returned visits are the longest prefix of the nearest-first walk
\* in which every step fits the budget: all visited steps fitted, the next
\* step of the walk did not, and everything after it is counted remaining.
C6_StopsAtFirstMisfit ==
    pc = "done" =>
        LET W == Walk(start, original)
            k == Len(visited)
        IN  /\ k <= Len(W)
            /\ \A i \in 1..k :
                  /\ visited[i].pos = W[i]
                  /\ ~(fadd(TimeBefore(i),
                            fadd(visited[i].travel_time, pickup_time)) > total_time)
            /\ k < Len(W) => NoTime(TimeNeeded(TravelTime(euclid(pos, W[k + 1]))))
            /\ result[1].remaining_artifacts = Len(W) - k

C6_Witness ==
    /\ pc = "done"
    /\ visited # <<>>
    /\ result[1].remaining_artifacts >= 2

\* the float sum 0 + g1 + g2 + ... of the gained fields, left to right
RECURSIVE SumGained(_)
SumGained(sq) ==
    IF sq = <<>> THEN 0
    ELSE fadd(SumGained(SubSeq(sq, 1, Len(sq) - 1)), Last(sq).gained)

NothingFits ==
    \A i \in 1..Len(original) :
        speed # 0 /\ fadd(0, fadd(fdiv(euclid(start, original[i]), speed), pickup_time))
                        > total_time

\* C7: the score is the sum of the gained fields of the visit records after
\* every iteration and in the result; it is 0 with no visit when the list is
\* empty or no target fits the budget.
C7_ScoreIsSumOfGained ==
    /\ score = SumGained(visited)
    /\ result # <<>> => result[1].expected_score = SumGained(result[1].visited)
    /\ (pc = "done" /\ NothingFits) => (score = 0 /\ visited = <<>>)

C7_Witness ==
    /\ pc = "done"
    /\ Len(visited) >= 2
    /\ \E i, j \in 1..Len(visited) : visited[i].gained # visited[j].gained

\* no target fitted the budget: an empty plan with score 0
C7_WitnessEmpty == pc = "done" /\ original # <<>> /\ NothingFits /\ score = 0

\* C8 as stated: consecutive visit records have strictly increasing
\* time_at_pickup.
C8_StrictlyIncreasing ==
    ValidParams =>
        \A i \in 2..Len(visited) :
            visited[i].time_at_pickup > visited[i - 1].time_at_pickup

\* C8: with valid parameters consecutive visit records have non-decreasing
\* time_at_pickup.
C8_NonDecreasing ==
    ValidParams =>
        \A i \in 2..Len(visited) :
            visited[i].time_at_pickup >= visited[i - 1].time_at_pickup

\* both cases: a visit that took no time, and one that took some
C8_Witness ==
    /\ ValidParams
    /\ \E i \in 2..Len(visited) :
          visited[i].time_at_pickup = visited[i - 1].time_at_pickup
    /\ \E i \in 2..Len(visited) :
          visited[i].time_at_pickup > visited[i - 1].time_at_pickup

\* C9: no step changes the caller's list, params or start.
C9_CallerDataUnchanged ==
    [][ /\ heap'[artifact_positions] = heap[artifact_positions]
        /\ args' = args ]_vars

\* returned with the working copy shorter than the caller's list
C9_Witness ==
    /\ pc = "done"
    /\ visited # <<>>
    /\ Len(remaining) < Len(original)
    /\ Len(original) = Len(visited) + Len(remaining)

\* C10: a record's bonus is decode_bonus exactly when its target is within
\* the decode zone, boundary included, else 0; gained is base plus bonus,
\* times auton_multiplier when in_auton.
C10_BonusAndGained ==
    \A i \in 1..Len(visited) :
        LET v == visited[i]
        IN  /\ v.base_points = points_per_artifact
            /\ v.bonus_points =
                  (IF euclid(v.pos, decode_zone[1]) <= decode_zone[2]
                   THEN decode_bonus ELSE 0)
            /\ v.gained =
                  (IF v.in_auton
                   THEN fmul(fadd(v.base_points, v.bonus_points), auton_multiplier)
                   ELSE fadd(v.base_points, v.bonus_points))

\* a target on the zone's boundary with the bonus, multiplied; one outside
C10_Witness ==
    /\ \E i \in 1..Len(visited) :
          /\ euclid(visited[i].pos, decode_zone[1]) = decode_zone[2]
          /\ visited[i].bonus_points = decode_bonus
          /\ visited[i].in_auton
          /\ visited[i].gained > fadd(visited[i].base_points, visited[i].bonus_points)
    /\ \E i \in 1..Len(visited) :
          /\ euclid(visited[i].pos, decode_zone[1]) > decode_zone[2]
          /\ visited[i].bonus_points = 0
          /\ ~visited[i].in_auton
====
